---- MODULE Spec2Model ----
(***************************************************************************)
(* TLangModel of openspell/lang_model.cpp: the vocabulary, the n-gram      *)
(* accumulators, the perfect-hash counter store, the scorer and the        *)
(* Save/Load/Clear life cycle, as one state machine.                       *)
(***************************************************************************)
EXTENDS Integers, Sequences, FiniteSets, TLC

\* ------------------------------------------------------------- bounds
\* Words of one training corpus, and of all the corpora a model accumulates.
MaxCorpusWords == 3
\* Entries of IdToWord (it grows across Clear).
MaxIdToWord == 3
\* Buckets the perfect hash allocates beyond the number of keys.
MaxSlack == 1
\* Words of a scored sentence.
MaxScoreLen == 2
\* Range of the fingerprints.
FpMod == 3

MaxTotalWords == MaxCorpusWords
\* Words of a corpus in the specifications that add queries or files.
MaxSmallWords == MaxCorpusWords - 1
MaxFileWords == MaxCorpusWords - 1

\* ---------------------------------------------------- program constants
UnknownWordId == 2147483647
DEFAULT_K == 5
MAGIC_BYTE == 77
VERSION == 1

\* ------------------------------------------------------------- inputs
Words == {"a", "b"}
UnseenWord == "z"
QueryWords == Words \cup {UnseenWord}

RECURSIVE CorpusLen(_)
CorpusLen(c) == IF c = <<>> THEN 0 ELSE Len(Head(c)) + CorpusLen(Tail(c))

\* The corpora of exactly k words: what Tokenizer.Process returns for the
\* training text, a sequence of non-empty sentences. The empty sequence is
\* the missing or empty corpus file.
RECURSIVE CorporaOf(_)
CorporaOf(k) ==
    IF k = 0 THEN {<<>>}
    ELSE UNION {{<<s>> \o c : s \in [1..n -> Words], c \in CorporaOf(k - n)} :
                  n \in 1..k}

Corpora == UNION {CorporaOf(k) : k \in 0..MaxCorpusWords}

\* The corpora tried with an alphabet file that cannot be loaded.
NoAlphabetCorpora == {c \in Corpora : CorpusLen(c) <= 1}

\* The corpora of the specifications that add queries or files to training.
SmallCorpora == {c \in Corpora : CorpusLen(c) <= MaxSmallWords}

FileCorpora ==
    {c \in Corpora : Len(c) = 1 /\ CorpusLen(c) <= MaxFileWords /\ c[1][1] = "a"}

ScoreInputs == UNION {[1..n -> QueryWords] : n \in 0..MaxScoreLen}

QueryIds == (0..1) \cup {UnknownWordId}

\* Pointer values the reverse index can hold besides a live word.
NullPtr == "<null>"
Dangling == "<dangling>"
EmptyWord == ""
Crash == "<crash>"
Garbage == "<garbage>"

VARIABLES K, WordToId, IdToWord, LastWordID, TotalWords,
          Grams1, Grams2, Grams3, PerfectHash, Buckets,
          saved, ret

modelVars == <<K, WordToId, IdToWord, LastWordID, TotalWords,
               Grams1, Grams2, Grams3, PerfectHash, Buckets>>
vars == <<K, WordToId, IdToWord, LastWordID, TotalWords,
          Grams1, Grams2, Grams3, PerfectHash, Buckets, saved, ret>>

EmptyMap == <<>>

\* ---------------------------------------------------------- vocabulary
\* GetWordId without the find: every call allocates.
GetWordIdAlwaysInsert(v, w) ==
    [v |-> [WordToId |-> [x \in DOMAIN v.WordToId \cup {w} |->
                             IF x = w THEN v.LastWordID ELSE v.WordToId[x]],
            LastWordID |-> v.LastWordID + 1,
            IdToWord |-> Append(v.IdToWord, w)],
     id |-> v.LastWordID]

\* GetWordId on the triple (WordToId, LastWordID, IdToWord).
GetWordId(v, w) ==
    IF w \in DOMAIN v.WordToId
    THEN [v |-> v, id |-> v.WordToId[w]]
    ELSE [v |-> [WordToId |-> v.WordToId @@ (w :> v.LastWordID),
                 LastWordID |-> v.LastWordID + 1,
                 IdToWord |-> Append(v.IdToWord, w)],
          id |-> v.LastWordID]

GetWordIdNoCreate(w2i, w) ==
    IF w \in DOMAIN w2i THEN w2i[w] ELSE UnknownWordId

\* The outcomes of GetWordById: the empty word past the end of IdToWord, the
\* pointed-to text for a live pointer, and whatever the build produces when
\* a null or a dangling pointer is dereferenced.
GetWordById(i2w, wid) ==
    IF wid >= Len(i2w) THEN {EmptyWord}
    ELSE IF i2w[wid + 1] \in {NullPtr, Dangling} THEN {Crash, Garbage} \cup Words
    ELSE {i2w[wid + 1]}

RECURSIVE ConvertWords(_, _, _)
ConvertWords(v, words, ids) ==
    IF words = <<>> THEN [v |-> v, ids |-> ids]
    ELSE LET r == GetWordId(v, Head(words))
         IN ConvertWords(r.v, Tail(words), Append(ids, r.id))

RECURSIVE ConvertToIdsFrom(_, _, _)
ConvertToIdsFrom(v, sentences, out) ==
    IF sentences = <<>> THEN [v |-> v, sentenceIds |-> out]
    ELSE LET r == ConvertWords(v, Head(sentences), <<>>)
         IN ConvertToIdsFrom(r.v, Tail(sentences), Append(out, r.ids))

ConvertToIds(v, sentences) == ConvertToIdsFrom(v, sentences, <<>>)

\* ------------------------------------------------------- n-gram counts
\* grams[key] += 1 on a map that default-constructs a missing entry.
Inc(grams, key) ==
    IF key \in DOMAIN grams THEN [grams EXCEPT ![key] = @ + 1]
    ELSE grams @@ (key :> 1)

\* The sum of the counts of a map.
RECURSIVE GramsTotal(_)
GramsTotal(grams) ==
    IF DOMAIN grams = {} THEN 0
    ELSE LET k == CHOOSE k \in DOMAIN grams : TRUE
         IN grams[k] + GramsTotal([x \in DOMAIN grams \ {k} |-> grams[x]])

\* AddGrams1 with the loop started at the second word.
RECURSIVE AddGrams1SkipFirst(_, _, _)
AddGrams1SkipFirst(g, words, j) ==
    IF j > Len(words) THEN g
    ELSE IF j = 1 THEN AddGrams1SkipFirst(g, words, j + 1)
    ELSE AddGrams1SkipFirst([Grams1 |-> Inc(g.Grams1, words[j]),
                             TotalWords |-> g.TotalWords + 1], words, j + 1)

\* for (auto w: words) { Grams1[w] += 1; TotalWords += 1; }
RECURSIVE AddGrams1(_, _, _)
AddGrams1(g, words, j) ==
    IF j > Len(words) THEN g
    ELSE AddGrams1([Grams1 |-> Inc(g.Grams1, words[j]),
                    TotalWords |-> g.TotalWords + 1], words, j + 1)

\* for (j = 0; j < size - 1; ++j) Grams2[(words[j], words[j+1])] += 1;
RECURSIVE AddGrams2(_, _, _)
AddGrams2(g2, words, j) ==
    IF j > Len(words) - 1 THEN g2
    ELSE AddGrams2(Inc(g2, <<words[j], words[j + 1]>>), words, j + 1)

\* for (j = 0; j < size - 2; ++j) Grams3[(words[j], words[j+1], words[j+2])] += 1;
RECURSIVE AddGrams3(_, _, _)
AddGrams3(g3, words, j) ==
    IF j > Len(words) - 2 THEN g3
    ELSE AddGrams3(Inc(g3, <<words[j], words[j + 1], words[j + 2]>>), words, j + 1)

\* The loop over the sentences of Train, on the record of the accumulators.
RECURSIVE Accumulate(_, _, _)
Accumulate(acc, sentenceIds, i) ==
    IF i > Len(sentenceIds) THEN acc
    ELSE LET words == sentenceIds[i]
             g1 == AddGrams1([Grams1 |-> acc.Grams1, TotalWords |-> acc.TotalWords],
                             words, 1)
         IN Accumulate([Grams1 |-> g1.Grams1,
                        TotalWords |-> g1.TotalWords,
                        Grams2 |-> AddGrams2(acc.Grams2, words, 1),
                        Grams3 |-> AddGrams3(acc.Grams3, words, 1)],
                       sentenceIds, i + 1)

\* ------------------------------------------------- keys and the two hashes
\* The serialized key: the ids of the gram, in order, one fixed-width field
\* each, so that keys of different orders differ in length.
DumpKey1(w) == <<w>>
DumpKey2(key) == <<key[1], key[2]>>
DumpKey3(key) == <<key[1], key[2], key[3]>>

\* The serialized key read as a number (base KeyBase, digits id + 1).
KeyBase == Cardinality(Words) + 2

RECURSIVE KeyCode(_)
KeyCode(s) ==
    IF s = <<>> THEN 0 ELSE (Head(s) + 1) + KeyBase * KeyCode(Tail(s))

\* The 32-bit content hash, on a range small enough for two keys to share a
\* fingerprint.
RECURSIVE ByteSum(_, _)
ByteSum(s, i) == IF i > Len(s) THEN 0 ELSE i * (s[i] + 1) + ByteSum(s, i + 1)

CityHash32(s) == (ByteSum(s, 1) + Len(s)) % FpMod

PrepareNgramKeys(g1, g2, g3) ==
    {DumpKey1(k) : k \in DOMAIN g1} \cup {DumpKey2(k) : k \in DOMAIN g2}
        \cup {DumpKey3(k) : k \in DOMAIN g3}

\* PerfectHash.Init(keys): some minimal perfect hash of the keys, with at
\* least as many buckets as keys; index is the bucket it gives each key.
PerfectHashInit(keys, seed, slack) ==
    LET n == Cardinality(keys) + slack
        codes == {KeyCode(k) : k \in keys}
    IN [index |-> [s \in keys |->
                     (Cardinality({c \in codes : c < KeyCode(s)}) + seed) % n],
        seed |-> seed, n |-> n]

EmptyPerfectHash == [index |-> <<>>, seed |-> 0, n |-> 0]

BucketsNumber(ph) == ph.n

\* PerfectHash.Hash: one bucket per key of the Init set, some bucket in range
\* for any other key.
Hash(ph, s) ==
    IF s \in DOMAIN ph.index THEN ph.index[s]
    ELSE (KeyCode(s) + ph.seed) % ph.n

EmptyBucket == <<0, 0>>

\* Buckets.resize(n): the first n old buckets, value-initialized past them.
Resize(buckets, n) ==
    [b \in 1..n |-> IF b <= Len(buckets) THEN buckets[b] ELSE EmptyBucket]

\* The count the accumulators hold for a serialized key.
GramCount(g1, g2, g3, s) ==
    IF Len(s) = 1 THEN g1[s[1]] ELSE IF Len(s) = 2 THEN g2[s] ELSE g3[s]

\* InitializeBuckets, for the keys of the three maps: the bucket of each key
\* receives the key's fingerprint and count.
RECURSIVE InitializeBuckets(_, _, _, _, _, _)
InitializeBuckets(keys, g1, g2, g3, ph, buckets) ==
    IF keys = {} THEN buckets
    ELSE LET s == CHOOSE s \in keys : TRUE
         IN InitializeBuckets(keys \ {s}, g1, g2, g3, ph,
                [buckets EXCEPT ![Hash(ph, s) + 1] =
                    <<CityHash32(s), GramCount(g1, g2, g3, s)>>])

\* --------------------------------------------------------------- lookup
Undefined == -1

\* GetGramHashCount without the comparison of the fingerprints.
GetGramHashCountNoFingerprint(s, ph, buckets) ==
    IF ph.n = 0 \/ Hash(ph, s) >= Len(buckets) THEN Undefined
    ELSE buckets[Hash(ph, s) + 1][2]

\* GetGramHashCount: Undefined when the bucket index is outside the array
\* (the assertion fails, or the read is out of bounds).
GetGramHashCount(s, ph, buckets) ==
    IF ph.n = 0 \/ Hash(ph, s) >= Len(buckets) THEN Undefined
    ELSE LET data == buckets[Hash(ph, s) + 1]
         IN IF data[1] = CityHash32(s) THEN data[2] ELSE 0

GetGram1HashCount(word, ph, buckets) ==
    IF word = UnknownWordId THEN 0
    ELSE GetGramHashCount(DumpKey1(word), ph, buckets)

GetGram2HashCount(word1, word2, ph, buckets) ==
    IF word1 = UnknownWordId \/ word2 = UnknownWordId THEN 0
    ELSE GetGramHashCount(DumpKey2(<<word1, word2>>), ph, buckets)

GetGram3HashCount(word1, word2, word3, ph, buckets) ==
    IF word1 = UnknownWordId \/ word2 = UnknownWordId \/ word3 = UnknownWordId THEN 0
    ELSE GetGramHashCount(DumpKey3(<<word1, word2, word3>>), ph, buckets)

\* -------------------------------------------------------------- scoring
\* A probability (c + k) / d, kept as its three parts.
Prob(c, k, d) == [c |-> c, k |-> k, d |-> d]

GetGram1Prob(m, word) ==
    LET countsGram1 == GetGram1HashCount(word, m.PerfectHash, m.Buckets)
        vocabSize == Cardinality(DOMAIN m.Grams1)
    IN Prob(countsGram1, m.K, m.TotalWords + vocabSize)

GetGram2Prob(m, word1, word2) ==
    LET countsGram1 == GetGram1HashCount(word1, m.PerfectHash, m.Buckets)
        countsGram2 == GetGram2HashCount(word1, word2, m.PerfectHash, m.Buckets)
    IN Prob(IF countsGram2 > countsGram1 THEN 0 ELSE countsGram2, m.K,
            countsGram1 + m.TotalWords)

GetGram3Prob(m, word1, word2, word3) ==
    LET countsGram2 == GetGram2HashCount(word1, word2, m.PerfectHash, m.Buckets)
        countsGram3 == GetGram3HashCount(word1, word2, word3, m.PerfectHash, m.Buckets)
    IN Prob(IF countsGram3 > countsGram2 THEN 0 ELSE countsGram3, m.K,
            countsGram2 + m.TotalWords)

\* Whether a count the loop body reads at position i is Undefined.
TermUndefined(m, sentence, i) ==
    \/ GetGram1HashCount(sentence[i], m.PerfectHash, m.Buckets) = Undefined
    \/ GetGram2HashCount(sentence[i], sentence[i + 1], m.PerfectHash, m.Buckets) = Undefined
    \/ GetGram3HashCount(sentence[i], sentence[i + 1], sentence[i + 2],
                         m.PerfectHash, m.Buckets) = Undefined

\* ScoreLoop with the bound sentence.size() - 3.
RECURSIVE ScoreLoopStopsEarly(_, _, _, _)
ScoreLoopStopsEarly(m, sentence, i, terms) ==
    IF ~(i < Len(sentence) - 3) THEN terms
    ELSE ScoreLoopStopsEarly(m, sentence, i + 1,
            Append(terms, [i |-> i,
                           p1 |-> GetGram1Prob(m, sentence[i + 1]),
                           p2 |-> GetGram2Prob(m, sentence[i + 1], sentence[i + 2]),
                           p3 |-> GetGram3Prob(m, sentence[i + 1], sentence[i + 2],
                                               sentence[i + 3])]))

\* for (i = 0; i < sentence.size() - 2; ++i): the terms added to result, in
\* order, each with its (0-based) position.
RECURSIVE ScoreLoop(_, _, _, _)
ScoreLoop(m, sentence, i, terms) ==
    IF ~(i < Len(sentence) - 2) THEN terms
    ELSE ScoreLoop(m, sentence, i + 1,
            Append(terms, [i |-> i,
                           p1 |-> GetGram1Prob(m, sentence[i + 1]),
                           p2 |-> GetGram2Prob(m, sentence[i + 1], sentence[i + 2]),
                           p3 |-> GetGram3Prob(m, sentence[i + 1], sentence[i + 2],
                                               sentence[i + 3])]))

RECURSIVE WordsToIds(_, _)
WordsToIds(w2i, words) ==
    IF words = <<>> THEN <<>>
    ELSE <<GetWordIdNoCreate(w2i, Head(words))>> \o WordsToIds(w2i, Tail(words))

\* Score(words) on the model m: "min" for the empty input, "undefined" when a
\* count read is Undefined, else the terms of the sum.
ScoreOf(m, words) ==
    LET ids == WordsToIds(m.WordToId, words)
        sentence == ids \o <<UnknownWordId, UnknownWordId>>
    IN IF ids = <<>> THEN [kind |-> "min", terms |-> <<>>]
       ELSE IF \E i \in 1..Len(ids) : TermUndefined(m, sentence, i)
            THEN [kind |-> "undefined", terms |-> <<>>]
            ELSE [kind |-> "sum", terms |-> ScoreLoop(m, sentence, 0, <<>>)]

\* The model as a record, for the operators above.
Model ==
    [K |-> K, WordToId |-> WordToId, TotalWords |-> TotalWords, Grams1 |-> Grams1,
     PerfectHash |-> PerfectHash, Buckets |-> Buckets]

\* ---------------------------------------------------------- life cycle
\* The state of a newly constructed TLangModel.
Init ==
    /\ K = DEFAULT_K
    /\ WordToId = EmptyMap
    /\ IdToWord = <<>>
    /\ LastWordID = 0
    /\ TotalWords = 0
    /\ Grams1 = EmptyMap
    /\ Grams2 = EmptyMap
    /\ Grams3 = EmptyMap
    /\ PerfectHash = EmptyPerfectHash
    /\ Buckets = <<>>
    /\ saved = [exists |-> FALSE]
    /\ ret = [op |-> "Init", arg |-> 0, val |-> 0]

IsNew ==
    /\ K = DEFAULT_K /\ WordToId = EmptyMap /\ IdToWord = <<>> /\ LastWordID = 0
    /\ TotalWords = 0 /\ Grams1 = EmptyMap /\ Grams2 = EmptyMap /\ Grams3 = EmptyMap
    /\ PerfectHash = EmptyPerfectHash /\ Buckets = <<>>

\* TrainOutcome without the return on a failed LoadAlphabet.
TrainOutcomeNoAlphabetCheck(alphabetOk, sentences) ==
    IF sentences = <<>> THEN "no_sentences" ELSE "ok"

\* The two early returns of Train.
TrainOutcome(alphabetOk, sentences) ==
    IF ~alphabetOk THEN "no_alphabet"
    ELSE IF sentences = <<>> THEN "no_sentences"
    ELSE "ok"

\* Train past its early returns: the vocabulary, the accumulators, the perfect
\* hash and the buckets it leaves.
TrainBuild(sentences, seed, slack) ==
    LET conv == ConvertToIds([WordToId |-> WordToId, LastWordID |-> LastWordID,
                              IdToWord |-> IdToWord], sentences)
        acc == Accumulate([Grams1 |-> Grams1, Grams2 |-> Grams2, Grams3 |-> Grams3,
                           TotalWords |-> TotalWords], conv.sentenceIds, 1)
        keys == PrepareNgramKeys(acc.Grams1, acc.Grams2, acc.Grams3)
        ph == PerfectHashInit(keys, seed, slack)
    IN [v |-> conv.v, acc |-> acc, ph |-> ph,
        buckets |-> InitializeBuckets(keys, acc.Grams1, acc.Grams2, acc.Grams3, ph,
                                      Resize(Buckets, BucketsNumber(ph)))]

Train(corpus, alphabetOk, seed, slack) ==
    LET outcome == TrainOutcome(alphabetOk, corpus)
    IN /\ ret' = [op |-> "Train",
                  arg |-> [corpus |-> IF outcome = "ok" THEN corpus ELSE <<>>,
                           alphabetOk |-> alphabetOk, sentences |-> Len(corpus)],
                  val |-> (outcome = "ok")]
       /\ IF outcome # "ok"
          THEN UNCHANGED <<K, WordToId, IdToWord, LastWordID, TotalWords,
                           Grams1, Grams2, Grams3, PerfectHash, Buckets, saved>>
          ELSE /\ TotalWords + CorpusLen(corpus) <= MaxTotalWords
               /\ GramsTotal(Grams1) + CorpusLen(corpus) <= MaxTotalWords
               /\ \E t \in {TrainBuild(corpus, seed, slack)} :
                  /\ Len(t.v.IdToWord) <= MaxIdToWord
                  /\ WordToId' = t.v.WordToId
                  /\ LastWordID' = t.v.LastWordID
                  /\ IdToWord' = t.v.IdToWord
                  /\ Grams1' = t.acc.Grams1
                  /\ Grams2' = t.acc.Grams2
                  /\ Grams3' = t.acc.Grams3
                  /\ TotalWords' = t.acc.TotalWords
                  /\ PerfectHash' = t.ph
                  /\ Buckets' = t.buckets
                  /\ UNCHANGED <<K, saved>>

Score(words) ==
    /\ ret' = [op |-> "Score", arg |-> words, val |-> ScoreOf(Model, words)]
    /\ UNCHANGED <<modelVars, saved>>

\* Save(out): the payload between the two magic numbers is K, the vocabulary
\* (the word-to-id map with the next id), TotalWords, the perfect hash and the
\* buckets. The accumulators and the reverse index are not written.
SavePayload ==
    [K |-> K, WordToId |-> WordToId, LastWordID |-> LastWordID,
     TotalWords |-> TotalWords, PerfectHash |-> PerfectHash, Buckets |-> Buckets]

\* Save; with the file, srcGrams1 remembers the unigram map of the saving
\* model, which is not in the file.
Save ==
    /\ saved' = [exists |-> TRUE, payload |-> SavePayload, srcGrams1 |-> Grams1]
    /\ ret' = [op |-> "Save", arg |-> 0, val |-> 0]
    /\ UNCHANGED modelVars

\* The files Load can be given: none, the saved one, and the saved one with
\* its leading magic, its version or its trailing magic changed.
MissingFile == [name |-> "missing", magic |-> 0, version |-> 0, trailer |-> 0]

Files ==
    {MissingFile} \cup
    (IF saved.exists
     THEN {[name |-> "intact", magic |-> MAGIC_BYTE, version |-> VERSION,
            trailer |-> MAGIC_BYTE],
           [name |-> "bad_magic", magic |-> MAGIC_BYTE + 1, version |-> VERSION,
            trailer |-> MAGIC_BYTE],
           [name |-> "bad_version", magic |-> MAGIC_BYTE, version |-> VERSION + 1,
            trailer |-> MAGIC_BYTE],
           [name |-> "bad_trailer", magic |-> MAGIC_BYTE, version |-> VERSION,
            trailer |-> MAGIC_BYTE + 1]}
     ELSE {})

\* LoadHeader without the comparison of the version.
LoadHeaderNoVersionCheck(f) ==
    IF f.magic # MAGIC_BYTE THEN "bad_magic" ELSE "ok"

\* The two checks of Load before the payload is read.
LoadHeader(f) ==
    IF f.magic # MAGIC_BYTE THEN "bad_magic"
    ELSE IF f.version # VERSION THEN "bad_version"
    ELSE "ok"

\* The pointers of IdToWord once the nodes of WordToId are destroyed.
Invalidate(i2w) ==
    [i \in 1..Len(i2w) |-> IF i2w[i] = NullPtr THEN NullPtr ELSE Dangling]

\* IdToWord.clear(); IdToWord.resize(WordToId.size() + 1, nullptr); then one
\* pointer stored per entry of WordToId.
RebuildIdToWord(w2i) ==
    [i \in 1..(Cardinality(DOMAIN w2i) + 1) |->
        IF \E w \in DOMAIN w2i : w2i[w] = i - 1
        THEN CHOOSE w \in DOMAIN w2i : w2i[w] = i - 1
        ELSE NullPtr]

\* What Clear assigns.
ClearState ==
    /\ K' = DEFAULT_K
    /\ WordToId' = EmptyMap
    /\ LastWordID' = 0
    /\ TotalWords' = 0
    /\ Grams1' = EmptyMap
    /\ Grams2' = EmptyMap
    /\ Grams3' = EmptyMap

\* Load(in): every field of the payload replaces the model's; the nodes of
\* the old WordToId are destroyed.
LoadPayload(p) ==
    /\ K' = p.K
    /\ WordToId' = p.WordToId
    /\ LastWordID' = p.LastWordID
    /\ TotalWords' = p.TotalWords
    /\ PerfectHash' = p.PerfectHash
    /\ Buckets' = p.Buckets

Load(f) ==
    LET header == LoadHeader(f)
        fresh == IsNew
    IN /\ UNCHANGED saved
       /\ IF header # "ok"
          THEN /\ ret' = [op |-> "Load", arg |-> [file |-> f.name, fresh |-> fresh],
                          val |-> FALSE]
               /\ UNCHANGED modelVars
          ELSE IF f.trailer # MAGIC_BYTE
          THEN \* Load(in), then Clear(): Clear overwrites K, WordToId,
               \* LastWordID and TotalWords of the payload, and the accumulators.
               /\ ret' = [op |-> "Load", arg |-> [file |-> f.name, fresh |-> fresh],
                          val |-> FALSE]
               /\ ClearState
               /\ PerfectHash' = saved.payload.PerfectHash
               /\ Buckets' = saved.payload.Buckets
               /\ IdToWord' = Invalidate(IdToWord)
          ELSE /\ ret' = [op |-> "Load", arg |-> [file |-> f.name, fresh |-> fresh],
                          val |-> TRUE]
               /\ LoadPayload(saved.payload)
               /\ IdToWord' = RebuildIdToWord(saved.payload.WordToId)
               /\ UNCHANGED <<Grams1, Grams2, Grams3>>

Clear ==
    /\ ClearState
    /\ IdToWord' = Invalidate(IdToWord)
    /\ ret' = [op |-> "Clear", arg |-> 0, val |-> 0]
    /\ UNCHANGED <<PerfectHash, Buckets, saved>>

\* The model is destroyed and a new one constructed; files stay.
New ==
    /\ K' = DEFAULT_K
    /\ WordToId' = EmptyMap
    /\ IdToWord' = <<>>
    /\ LastWordID' = 0
    /\ TotalWords' = 0
    /\ Grams1' = EmptyMap
    /\ Grams2' = EmptyMap
    /\ Grams3' = EmptyMap
    /\ PerfectHash' = EmptyPerfectHash
    /\ Buckets' = <<>>
    /\ ret' = [op |-> "New", arg |-> 0, val |-> 0]
    /\ UNCHANGED saved

\* ------------------------------------------------------------- queries
Intern(w) ==
    LET r == GetWordId([WordToId |-> WordToId, LastWordID |-> LastWordID,
                        IdToWord |-> IdToWord], w)
    IN /\ Len(r.v.IdToWord) <= MaxIdToWord
       /\ WordToId' = r.v.WordToId
       /\ LastWordID' = r.v.LastWordID
       /\ IdToWord' = r.v.IdToWord
       /\ ret' = [op |-> "Intern", arg |-> w, val |-> r.id]
       /\ UNCHANGED <<K, TotalWords, Grams1, Grams2, Grams3, PerfectHash, Buckets,
                      saved>>

Lookup(w) ==
    /\ ret' = [op |-> "Lookup", arg |-> w, val |-> GetWordIdNoCreate(WordToId, w)]
    /\ UNCHANGED <<modelVars, saved>>

Resolve(wid) ==
    /\ \E word \in GetWordById(IdToWord, wid) :
          ret' = [op |-> "Resolve", arg |-> wid, val |-> word]
    /\ UNCHANGED <<modelVars, saved>>

\* What a caller sees of a count: the count, or, for an Undefined one, an abort
\* or any number.
CountOutcomes(c) == IF c = Undefined THEN {Undefined} \cup (0..MaxTotalWords) ELSE {c}

Count1(a) ==
    /\ \E c \in CountOutcomes(GetGram1HashCount(a, PerfectHash, Buckets)) :
          ret' = [op |-> "Count", arg |-> <<a>>, val |-> c]
    /\ UNCHANGED <<modelVars, saved>>

Count2(a, b) ==
    /\ \E c \in CountOutcomes(GetGram2HashCount(a, b, PerfectHash, Buckets)) :
          ret' = [op |-> "Count", arg |-> <<a, b>>, val |-> c]
    /\ UNCHANGED <<modelVars, saved>>

Count3(a, b, c3) ==
    /\ \E c \in CountOutcomes(GetGram3HashCount(a, b, c3, PerfectHash, Buckets)) :
          ret' = [op |-> "Count", arg |-> <<a, b, c3>>, val |-> c]
    /\ UNCHANGED <<modelVars, saved>>

\* ------------------------------------------------------ specifications
TrainCorpus ==
    \E corpus \in Corpora, slack \in 0..MaxSlack :
        \E seed \in 0..slack : Train(corpus, TRUE, seed, slack)

TrainNoAlphabet == \E corpus \in NoAlphabetCorpora : Train(corpus, FALSE, 0, 0)

TrainSmall ==
    \E corpus \in SmallCorpora, slack \in 0..MaxSlack :
        \E seed \in {0, slack} : Train(corpus, TRUE, seed, slack)

\* Training with a perfect hash that allocates one bucket per key.
TrainSmallDense == \E corpus \in SmallCorpora : Train(corpus, TRUE, 0, 0)

TrainFile ==
    \E corpus \in FileCorpora :
        /\ GramsTotal(Grams1) + CorpusLen(corpus) <= MaxFileWords
        /\ Train(corpus, TRUE, 0, 0)

\* Training: any corpus, on a new or a trained model, with any number of
\* spare buckets.
Next == TrainCorpus \/ TrainNoAlphabet \/ New

Spec == Init /\ [][Next]_vars

\* Persistence: Save and Load between trainings, Clear and construction.
NextFile ==
    \/ TrainFile
    \/ Save
    \/ \E f \in Files : Load(f)
    \/ Clear
    \/ New

SpecFile == Init /\ [][NextFile]_vars

\* The vocabulary under Intern, Lookup and Resolve calls.
NextVocab ==
    \/ TrainSmallDense
    \/ Clear
    \/ New
    \/ \E w \in Words : Intern(w)
    \/ \E w \in QueryWords : Lookup(w)
    \/ \E wid \in 0..MaxIdToWord : Resolve(wid)

SpecVocab == Init /\ [][NextVocab]_vars

\* The counter store under lookups of seen and unseen keys.
NextCount ==
    \/ TrainSmall
    \/ New
    \/ \E a \in QueryIds : Count1(a)
    \/ \E a \in QueryIds, b \in QueryIds : Count2(a, b)
    \/ \E a \in QueryIds, b \in QueryIds, c \in QueryIds : Count3(a, b, c)

SpecCount == Init /\ [][NextCount]_vars

\* Scoring on a new, a trained or a cleared model.
NextScore ==
    \/ TrainSmallDense
    \/ Clear
    \/ New
    \/ \E words \in ScoreInputs : Score(words)

SpecScore == Init /\ [][NextScore]_vars

\* =============================================================== claims
\* The grams of 1, 2 or 3 adjacent words of one sentence of a corpus.
GramsOf(corpus) ==
    {SubSeq(corpus[i], j, j + n - 1) :
        <<i, j, n>> \in {t \in (1..Len(corpus)) \X (1..MaxCorpusWords) \X (1..3) :
                          t[2] + t[3] - 1 <= Len(corpus[t[1]])}}

\* How often the gram g occurs inside a single sentence of the corpus.
Occurrences(corpus, g) ==
    Cardinality({t \in (1..Len(corpus)) \X (1..MaxCorpusWords) :
                   /\ t[2] + Len(g) - 1 <= Len(corpus[t[1]])
                   /\ SubSeq(corpus[t[1]], t[2], t[2] + Len(g) - 1) = g})

\* The count the store returns for the gram of the words g.
StoredCount(g) ==
    LET id(k) == GetWordIdNoCreate(WordToId, g[k])
    IN IF Len(g) = 1 THEN GetGram1HashCount(id(1), PerfectHash, Buckets)
       ELSE IF Len(g) = 2 THEN GetGram2HashCount(id(1), id(2), PerfectHash, Buckets)
       ELSE GetGram3HashCount(id(1), id(2), id(3), PerfectHash, Buckets)

TrainSucceeded == ret.op = "Train" /\ ret.val

\* C1: after a successful Train, the store returns for every gram of the
\* corpus the number of times it occurs inside a single sentence of the corpus.
C1_TrainCountsExact ==
    TrainSucceeded =>
        \A g \in GramsOf(ret.arg.corpus) :
            StoredCount(g) = Occurrences(ret.arg.corpus, g)

\* The same, for a Train that started with empty accumulators.
TrainCountsExactFromEmpty ==
    (TrainSucceeded /\ GramsTotal(Grams1) = CorpusLen(ret.arg.corpus)) =>
        \A g \in GramsOf(ret.arg.corpus) :
            StoredCount(g) = Occurrences(ret.arg.corpus, g)

\* C7: a Train whose alphabet cannot be loaded, or whose corpus has no
\* sentence, returns failure and changes nothing of the model.
C7_FailedTrainAddsNothing ==
    [][(ret'.op = "Train" /\ (~ret'.arg.alphabetOk \/ ret'.arg.sentences = 0))
          => (ret'.val = FALSE /\ UNCHANGED modelVars)]_vars

C7_Witness ==
    /\ ret.op = "Train" /\ ~ret.val
    /\ ret.arg.alphabetOk /\ ret.arg.sentences = 0
    /\ TotalWords > 0 /\ Len(Buckets) > 0

\* C9: the accumulated counts satisfy count2(a,b) <= count1(a) and
\* count3(a,b,c) <= count2(a,b), and after a Train the guards of P2 and P3
\* leave the stored count of every accumulated bigram and trigram as it is.
C9_ContextCountBounds ==
    /\ \A k \in DOMAIN Grams2 :
          k[1] \in DOMAIN Grams1 /\ Grams2[k] <= Grams1[k[1]]
    /\ \A k \in DOMAIN Grams3 :
          <<k[1], k[2]>> \in DOMAIN Grams2 /\ Grams3[k] <= Grams2[<<k[1], k[2]>>]
    /\ TrainSucceeded =>
          /\ \A k \in DOMAIN Grams2 :
                /\ GetGram2HashCount(k[1], k[2], PerfectHash, Buckets)
                      <= GetGram1HashCount(k[1], PerfectHash, Buckets)
                /\ GetGram2Prob(Model, k[1], k[2]).c = Grams2[k]
          /\ \A k \in DOMAIN Grams3 :
                /\ GetGram3HashCount(k[1], k[2], k[3], PerfectHash, Buckets)
                      <= GetGram2HashCount(k[1], k[2], PerfectHash, Buckets)
                /\ GetGram3Prob(Model, k[1], k[2], k[3]).c = Grams3[k]

C9_Witness ==
    /\ TrainSucceeded
    /\ \E k \in DOMAIN Grams3 : Grams3[k] >= 1 /\ Grams2[<<k[1], k[2]>>] > Grams3[k]
    /\ \E k \in DOMAIN Grams2 : Grams2[k] >= 2

\* The model that wrote the saved file, as far as Score reads it.
SavedModel ==
    [K |-> saved.payload.K, WordToId |-> saved.payload.WordToId,
     TotalWords |-> saved.payload.TotalWords, Grams1 |-> saved.srcGrams1,
     PerfectHash |-> saved.payload.PerfectHash, Buckets |-> saved.payload.Buckets]

LoadedIntoNew == ret.op = "Load" /\ ret.val /\ ret.arg.fresh

\* C2: after Save of a trained model and Load into a new model, Score of every
\* word sequence is the same on the loaded model as on the saving model.
C2_RoundTripScore ==
    (LoadedIntoNew /\ DOMAIN saved.srcGrams1 # {}) =>
        \A words \in ScoreInputs : ScoreOf(Model, words) = ScoreOf(SavedModel, words)

\* C5: a Load that fails on the trailing magic leaves the model empty:
\* vocabulary, reverse index, next id, TotalWords, K, perfect hash and buckets.
C5_BadTrailerClearsAll ==
    (ret.op = "Load" /\ ret.arg.file = "bad_trailer") =>
        /\ ret.val = FALSE
        /\ WordToId = EmptyMap /\ IdToWord = <<>> /\ LastWordID = 0
        /\ TotalWords = 0 /\ K = DEFAULT_K
        /\ PerfectHash = EmptyPerfectHash /\ Buckets = <<>>

\* C6: a Load that finds a wrong leading magic or a wrong version returns
\* failure and leaves every part of the model as it was.
C6_HeaderMismatchChangesNothing ==
    [][(ret'.op = "Load" /\ ret'.arg.file \in {"missing", "bad_magic", "bad_version"})
          => (ret'.val = FALSE /\ UNCHANGED modelVars)]_vars

C6_Witness ==
    /\ ret.op = "Load" /\ ret.arg.file = "bad_version" /\ ~ret.val
    /\ TotalWords > 0
    /\ saved.payload.WordToId # WordToId /\ saved.payload.Buckets # Buckets

\* C8: Resolve returns the word of every id the forward index assigns, and the
\* empty word for every other id.
C8_ResolveMatchesForwardIndex ==
    \A wid \in 0..(MaxIdToWord + 1) :
        GetWordById(IdToWord, wid) =
            IF \E w \in DOMAIN WordToId : WordToId[w] = wid
            THEN {w \in DOMAIN WordToId : WordToId[w] = wid}
            ELSE {EmptyWord}

\* The same, in the states a successful Load leaves.
ResolveAfterLoad ==
    (ret.op = "Load" /\ ret.val) => C8_ResolveMatchesForwardIndex

\* The serialized key of a Count query.
QueryKey == ret.arg

HasUnknown(key) == \E i \in 1..Len(key) : key[i] = UnknownWordId

\* The bucket a key hashes to, when the perfect hash has buckets.
BucketOf(key) == Buckets[Hash(PerfectHash, key) + 1]

\* C3: a lookup with an UnknownWordId among its ids returns zero, whatever
\* the perfect hash and the buckets hold; a lookup of any other key whose
\* bucket stores a different fingerprint returns zero.
C3_UnseenKeyCountsZero ==
    ret.op = "Count" =>
        /\ HasUnknown(QueryKey) => ret.val = 0
        /\ (/\ ~HasUnknown(QueryKey)
            /\ PerfectHash.n > 0
            /\ BucketOf(QueryKey)[1] # CityHash32(QueryKey)) => ret.val = 0

C3_Witness ==
    /\ ret.op = "Count" /\ ~HasUnknown(QueryKey)
    /\ PerfectHash.n > 0
    /\ QueryKey \notin DOMAIN PerfectHash.index
    /\ BucketOf(QueryKey)[2] > 0
    /\ BucketOf(QueryKey)[1] # CityHash32(QueryKey)
    /\ ret.val = 0

\* C4: Intern of a word of the vocabulary returns its id and changes nothing;
\* Intern of a new word returns the next sequential id and adds the word under
\* it; Lookup returns the id or UnknownWordId and changes nothing; no call
\* changes the id of a word.
C4_VocabularyIdempotence ==
    [][/\ ret'.op = "Intern" =>
            IF ret'.arg \in DOMAIN WordToId
            THEN ret'.val = WordToId[ret'.arg] /\ UNCHANGED modelVars
            ELSE /\ ret'.val = LastWordID
                 /\ LastWordID' = LastWordID + 1
                 /\ DOMAIN WordToId' = DOMAIN WordToId \cup {ret'.arg}
                 /\ WordToId'[ret'.arg] = LastWordID
       /\ ret'.op = "Lookup" =>
            /\ UNCHANGED modelVars
            /\ ret'.val = IF ret'.arg \in DOMAIN WordToId
                          THEN WordToId[ret'.arg] ELSE UnknownWordId
       /\ ret'.op \in {"Intern", "Lookup"} =>
            \A w \in DOMAIN WordToId :
                w \in DOMAIN WordToId' /\ WordToId'[w] = WordToId[w]]_vars

C4_Witness ==
    /\ ret.op = "Intern"
    /\ ret.val + 1 < LastWordID
    /\ WordToId[ret.arg] = ret.val

\* The ids Score works on: Lookup of each word, then two UnknownWordId.
ScoredSentence ==
    [i \in 1..(Len(ret.arg) + 2) |->
        IF i <= Len(ret.arg) THEN GetWordIdNoCreate(WordToId, ret.arg[i])
        ELSE UnknownWordId]

ScoreSummed == ret.op = "Score" /\ ret.val.kind = "sum"

TermAt(w, i) ==
    [i |-> i,
     p1 |-> GetGram1Prob(Model, w[i + 1]),
     p2 |-> GetGram2Prob(Model, w[i + 1], w[i + 2]),
     p3 |-> GetGram3Prob(Model, w[i + 1], w[i + 2], w[i + 3])]

\* C10 as stated: the terms of positions 0 to len-2 inclusive are accumulated,
\* len = n + 2.
C10_PositionsToLenMinus2 ==
    ScoreSummed =>
        {ret.val.terms[j].i : j \in 1..Len(ret.val.terms)} = 0..(Len(ScoredSentence) - 2)

\* C10: for n > 0 input words Score accumulates, once each and in order, the
\* three terms of every position i from 0 to len-3 inclusive (i < len-2), one
\* position per input word; the ids are those Lookup returns, followed by two
\* UnknownWordId.
C10_PositionsToLenMinus3 ==
    /\ (ret.op = "Score" /\ ret.arg = <<>>) => ret.val.kind = "min"
    /\ ScoreSummed =>
          /\ Len(ret.val.terms) = Len(ScoredSentence) - 2
          /\ \A j \in 1..Len(ret.val.terms) :
                ret.val.terms[j] = TermAt(ScoredSentence, j - 1)

C10_Witness ==
    /\ ScoreSummed
    /\ Len(ret.arg) = 2
    /\ ScoredSentence[1] # UnknownWordId /\ ScoredSentence[2] # UnknownWordId
    /\ ret.val.terms[1].p2.c > 0

====
